---- MODULE Spec2Model ----
(***************************************************************************)
(* Resilience layer of the agent accelerator: CircuitBreaker, HTTPReader   *)
(* (rate gate + breaker + transport), ServiceMonitor and the executor_node *)
(* call path, modelled as interleaved steps of caller threads.             *)
(***************************************************************************)
EXTENDS Integers, Sequences, FiniteSets

\* ------------------------------------------------------------------ bounds
MaxCallers == 2
MaxThreshold == 3
MaxCalls == 4
MaxTicks == 2
MaxRecords == 3
MaxRecordsSeq == 6
MaxWindowRecords == 11
MaxMessageLen == 3
MaxBodyLen == 3
MaxMillis == 2

\* --------------------------------------------------------------- constants
SecondsPerDay == 86400
ServiceTimeout == 30
ServiceThreshold == 3
RateLimitDelay == 1
MaxRetries == 2
ConsecutiveFailureThreshold == 3
WindowSize == 10
MinSamples == 5

\* Python's None for an optional timestamp (timestamps are >= 0).
None == -1

Callers == 1..MaxCallers

\* operation names passed to HTTPReader (one rate-limit key each)
Operations == {"read_a", "read_b"}

\* what the remote end does with one request sent by make_request
Responses == {"json", "empty", "not_json", "bad_json", "http_error",
              "timeout", "connection_error", "retries_exhausted"}

VARIABLES
    \* CircuitBreaker fields
    state, failure_count, last_failure_time,
    \* configuration: breaker parameters, number of threads that call,
    \* number of attempts the callers hand to the monitor in one run
    failure_threshold, timeout, ncallers, budget,
    \* wall clock (seconds), the number of clock advances so far, the
    \* milliseconds of the wall clock past the whole second
    now, ticks, millis,
    \* per thread: position inside CircuitBreaker.call, loaded
    \* failure_count, outcome of the last call
    pc, tmp, result,
    \* history: was the call admitted as a HALF_OPEN trial, when did the
    \* wrapped function last raise, how many calls ended in each outcome,
    \* how many top-level calls were started
    trial, raised_at, calls, ncalls,
    \* ServiceMonitor fields and its lock (0: free, else the holder)
    consecutive_failures, total_attempts, total_failures, failure_window,
    last_success_time, downtime_start, lock,
    \* emitted events (counted by kind, with the request ids the
    \* REQUEST_START events carry), downtime of the last recovery
    events, last_downtime,
    \* per thread: position inside log_attempt_success/failure, loaded
    \* counter, statistics reported by the last REQUEST_FAILURE event,
    \* history: the counters as the running log_attempt_failure left them
    \* inside its `with self._lock` block
    mpc, mtmp, reported, own,
    \* history: outcomes handed to the monitor, in call order
    history,
    \* HTTPReader._last_request_time, per thread: the operation key, end of
    \* the current sleep, value returned by make_request and by
    \* make_request_with_circuit_breaker; history: requests sent
    last_request_time, opkey, wake, retval, hret, sent,
    \* per thread, inside make_request: transport attempts made by
    \* session.post, retries the Retry object still allows, last reply
    attempts, retries_left, response,
    \* per thread: position inside executor_node or
    \* make_request_with_circuit_breaker
    outer,
    \* the error message handed to classify_error or, by executor_node,
    \* to log_attempt_failure; the failure kind returned or recorded
    error_message, kind

cbvars == <<state, failure_count, last_failure_time>>
cfg == <<failure_threshold, timeout, ncallers, budget>>
clock == <<now, ticks, millis>>
monfields == <<consecutive_failures, total_attempts, total_failures,
               failure_window, last_success_time, downtime_start>>
monvars == <<monfields, lock, events, last_downtime, mpc, mtmp, reported,
             own, history>>
txvars == <<attempts, retries_left, response>>
httpvars == <<last_request_time, opkey, wake, retval, hret, sent, txvars>>
clsvars == <<error_message, kind>>

vars == <<cbvars, cfg, clsvars, clock, pc, tmp, result, trial, raised_at,
          calls, ncalls, monvars, httpvars, outer>>

\* everything CircuitBreaker.call never touches
cbframe == <<cfg, clsvars, clock, ncalls, monvars, httpvars, outer>>

\* ------------------------------------------------------- CircuitBreaker
\* timedelta.seconds: the seconds field of a normalised timedelta, 0..86399
\* (the days field is dropped; the clock is kept in whole seconds)
TimedeltaSeconds(later, earlier) == (later - earlier) % SecondsPerDay

FastReject_inverted(lft, nw, tmo) ==
    lft # None /\ TimedeltaSeconds(nw, lft) > tmo

\* http_reader.py:62-64
FastReject(lft, nw, tmo) == lft # None /\ TimedeltaSeconds(nw, lft) < tmo

NeedsReset_open_only(st) == st = "OPEN"

\* http_reader.py:74
NeedsReset(st) == st \in {"HALF_OPEN", "OPEN"}

TripsOpen_strict(fc, thr) == fc > thr

\* http_reader.py:86
TripsOpen(fc, thr) == fc >= thr

\* CircuitBreaker.call leaves through return or raise
Finish(t, outcome) ==
    /\ pc' = [pc EXCEPT ![t] = "idle"]
    /\ result' = [result EXCEPT ![t] = outcome]
    /\ calls' = [calls EXCEPT ![outcome] = @ + 1]

\* entry of CircuitBreaker.call
Enter(t) ==
    /\ pc[t] = "idle"
    /\ pc' = [pc EXCEPT ![t] = "check"]
    /\ result' = [result EXCEPT ![t] = "none"]
    /\ trial' = [trial EXCEPT ![t] = FALSE]

\* a caller invokes CircuitBreaker.call(func) directly
CB_Call(t) ==
    /\ t <= ncallers
    /\ ncalls < MaxCalls
    /\ ncalls' = ncalls + 1
    /\ Enter(t)
    /\ UNCHANGED <<cbvars, cfg, clsvars, clock, tmp, raised_at, calls, monvars,
                   httpvars, outer>>

\* lines 61-66: the OPEN gate
CB_Check(t) ==
    /\ pc[t] = "check"
    /\ IF state = "OPEN"
       THEN IF FastReject(last_failure_time, now, timeout)
            THEN /\ Finish(t, "rejected")
                 /\ UNCHANGED trial
            ELSE /\ pc' = [pc EXCEPT ![t] = "half"]
                 /\ trial' = [trial EXCEPT ![t] = TRUE]
                 /\ UNCHANGED <<result, calls>>
       ELSE /\ pc' = [pc EXCEPT ![t] = "func"]
            /\ trial' = [trial EXCEPT ![t] = (state = "HALF_OPEN")]
            /\ UNCHANGED <<result, calls>>
    /\ UNCHANGED <<cbvars, tmp, raised_at, cbframe>>

\* line 67
CB_SetHalfOpen(t) ==
    /\ pc[t] = "half"
    /\ state' = "HALF_OPEN"
    /\ pc' = [pc EXCEPT ![t] = "func"]
    /\ UNCHANGED <<failure_count, last_failure_time, tmp, result, trial,
                   raised_at, calls, cbframe>>

\* line 71: the wrapped function returns
Func_Return(t) ==
    /\ pc[t] = "func"
    /\ pc' = [pc EXCEPT ![t] = "ok"]
    /\ UNCHANGED <<cbvars, tmp, result, trial, raised_at, calls, cbframe>>

\* line 71 -> 82: the wrapped function raises
Func_Raise(t) ==
    /\ pc[t] = "func"
    /\ pc' = [pc EXCEPT ![t] = "exc"]
    /\ raised_at' = now
    /\ UNCHANGED <<cbvars, tmp, result, trial, calls, cbframe>>

CB_SuccessCheck_again(t) ==
    /\ pc[t] = "ok"
    /\ IF NeedsReset(state)
       THEN /\ pc' = [pc EXCEPT ![t] = "func"]
            /\ UNCHANGED <<result, calls>>
       ELSE Finish(t, "returned")
    /\ UNCHANGED <<cbvars, tmp, trial, raised_at, cbframe>>

\* line 74 (and line 80 when no reset is due)
CB_SuccessCheck(t) ==
    /\ pc[t] = "ok"
    /\ IF NeedsReset(state)
       THEN /\ pc' = [pc EXCEPT ![t] = "reset_state"]
            /\ UNCHANGED <<result, calls>>
       ELSE Finish(t, "returned")
    /\ UNCHANGED <<cbvars, tmp, trial, raised_at, cbframe>>

\* line 76
CB_ResetState(t) ==
    /\ pc[t] = "reset_state"
    /\ state' = "CLOSED"
    /\ pc' = [pc EXCEPT ![t] = "reset_count"]
    /\ UNCHANGED <<failure_count, last_failure_time, tmp, result, trial,
                   raised_at, calls, cbframe>>

CB_ResetCount_kept(t) ==
    /\ pc[t] = "reset_count"
    /\ failure_count' = failure_count
    /\ pc' = [pc EXCEPT ![t] = "reset_time"]
    /\ UNCHANGED <<state, last_failure_time, tmp, result, trial, raised_at,
                   calls, cbframe>>

\* line 77
CB_ResetCount(t) ==
    /\ pc[t] = "reset_count"
    /\ failure_count' = 0
    /\ pc' = [pc EXCEPT ![t] = "reset_time"]
    /\ UNCHANGED <<state, last_failure_time, tmp, result, trial, raised_at,
                   calls, cbframe>>

\* lines 78-80
CB_ResetTime(t) ==
    /\ pc[t] = "reset_time"
    /\ last_failure_time' = None
    /\ Finish(t, "returned")
    /\ UNCHANGED <<state, failure_count, tmp, trial, raised_at, cbframe>>

\* line 83, the read of self.failure_count
CB_LoadCount(t) ==
    /\ pc[t] = "exc"
    /\ tmp' = [tmp EXCEPT ![t] = failure_count]
    /\ pc' = [pc EXCEPT ![t] = "store_count"]
    /\ UNCHANGED <<cbvars, result, trial, raised_at, calls, cbframe>>

\* line 83, the write of self.failure_count
CB_StoreCount(t) ==
    /\ pc[t] = "store_count"
    /\ failure_count' = tmp[t] + 1
    /\ tmp' = [tmp EXCEPT ![t] = 0]
    /\ pc' = [pc EXCEPT ![t] = "set_time"]
    /\ UNCHANGED <<state, last_failure_time, result, trial, raised_at, calls,
                   cbframe>>

\* line 84
CB_SetFailureTime(t) ==
    /\ pc[t] = "set_time"
    /\ last_failure_time' = now
    /\ pc' = [pc EXCEPT ![t] = "trip_check"]
    /\ UNCHANGED <<state, failure_count, tmp, result, trial, raised_at,
                   calls, cbframe>>

\* line 86 (and line 90 when the threshold is not reached)
CB_TripCheck(t) ==
    /\ pc[t] = "trip_check"
    /\ IF TripsOpen(failure_count, failure_threshold)
       THEN /\ pc' = [pc EXCEPT ![t] = "trip"]
            /\ UNCHANGED <<result, calls>>
       ELSE Finish(t, "raised")
    /\ UNCHANGED <<cbvars, tmp, trial, raised_at, cbframe>>

\* lines 87-90
CB_Trip(t) ==
    /\ pc[t] = "trip"
    /\ state' = "OPEN"
    /\ Finish(t, "raised")
    /\ UNCHANGED <<failure_count, last_failure_time, tmp, trial, raised_at,
                   cbframe>>

CB_Step(t) ==
    \/ CB_Check(t)
    \/ CB_SetHalfOpen(t)
    \/ CB_SuccessCheck(t)
    \/ CB_ResetState(t)
    \/ CB_ResetCount(t)
    \/ CB_ResetTime(t)
    \/ CB_LoadCount(t)
    \/ CB_StoreCount(t)
    \/ CB_SetFailureTime(t)
    \/ CB_TripCheck(t)
    \/ CB_Trip(t)

\* ---------------------------------------------------------------- clock
\* the clock advances: by a second, by the breaker timeout, or by a day
TickSteps == {1, timeout, SecondsPerDay}

Tick(d) ==
    /\ ticks < MaxTicks
    /\ now' = now + d
    /\ ticks' = ticks + 1
    /\ millis' = millis
    /\ UNCHANGED <<cbvars, cfg, clsvars, pc, tmp, result, trial, raised_at,
                   calls, ncalls, monvars, httpvars, outer>>

\* the wall clock passes into the next millisecond
TickMillis ==
    /\ millis < MaxMillis
    /\ millis' = millis + 1
    /\ UNCHANGED <<now, ticks, cbvars, cfg, clsvars, pc, tmp, result, trial,
                   raised_at, calls, ncalls, monvars, httpvars, outer>>

\* -------------------------------------------------------- ServiceMonitor
\* everything the monitor never touches
monframe == <<cbvars, cfg, clsvars, clock, pc, tmp, result, trial, raised_at,
              calls, ncalls, httpvars, outer>>

LockAvailable_ignored(l) == TRUE

\* service_monitor.py:139 and :178, `with self._lock`
LockAvailable(l) == l = 0

Evict_newest(w) ==
    IF Len(w) > WindowSize THEN SubSeq(w, 1, Len(w) - 1) ELSE w

\* service_monitor.py:152-153 and :189-190
Evict(w) == IF Len(w) > WindowSize THEN Tail(w) ELSE w

\* service_monitor.py:226
FailuresIn(w) == Cardinality({i \in 1..Len(w) : ~w[i]})

\* service_monitor.py:221-227, _calculate_failure_rate: the quotient
\* failures / len as a fraction, 0.0 (0/1) for an empty window
CalculateFailureRate(w) ==
    IF Len(w) = 0 THEN [num |-> 0, den |-> 1]
    ELSE [num |-> FailuresIn(w), den |-> Len(w)]

HighFailureRate_any_size(w) ==
    LET rate == CalculateFailureRate(w)
    IN 10 * rate.num >= 8 * rate.den

\* service_monitor.py:244-246: failure_rate >= 0.8 and len >= 5
HighFailureRate(w) ==
    LET rate == CalculateFailureRate(w)
    IN /\ 10 * rate.num >= 8 * rate.den
       /\ Len(w) >= MinSamples

\* outcomes one run may record: more when a single caller records them
RecordBudget == IF ncallers = 1 THEN MaxRecordsSeq ELSE MaxRecords

\* no counters noted: the thread is not inside log_attempt_failure
NoCounters == [cf |-> 0, tf |-> 0]

\* int(time.time() * 1000): the wall clock in whole milliseconds
TimeMillis == 1000 * now + millis

\* service_monitor.py:103, f"req_{int(time.time() * 1000)}_{get_ident()}":
\* the millisecond of the call and the identifier of the calling thread
RequestId(t) == <<TimeMillis, t>>

\* service_monitor.py:90-134, log_attempt_start: REQUEST_START is logged
\* with the request id and the statistics read at lines 124-126, the
\* request id is returned; no field of the monitor is written
LogAttemptStart(t) ==
    /\ mpc[t] = "idle"
    /\ mpc' = [mpc EXCEPT ![t] = "started"]
    /\ events' = [events EXCEPT !.start = @ + 1,
                                !.ids = @ \cup {RequestId(t)}]

\* a caller invokes log_attempt_start for a new attempt
Mon_Start(t) ==
    /\ t <= ncallers
    /\ events.start < budget
    /\ LogAttemptStart(t)
    /\ UNCHANGED <<monfields, lock, last_downtime, mtmp, reported, own,
                   history, monframe>>

\* entry of log_attempt_success (ok) or log_attempt_failure (~ok) for the
\* attempt the caller started
BeginRecord(t, ok) ==
    /\ mpc[t] = "started"
    /\ mpc' = [mpc EXCEPT ![t] = IF ok THEN "s_lock" ELSE "f_lock"]
    /\ history' = Append(history, ok)

MonGoto(t, from, to) ==
    /\ mpc[t] = from
    /\ mpc' = [mpc EXCEPT ![t] = to]

\* a caller invokes log_attempt_success directly
Mon_Success(t) ==
    /\ t <= ncallers
    /\ Len(history) < budget
    /\ BeginRecord(t, TRUE)
    /\ UNCHANGED <<monfields, lock, events, last_downtime, mtmp, reported, own,
                   monframe>>

\* a caller invokes log_attempt_failure directly
Mon_Failure(t) ==
    /\ t <= ncallers
    /\ Len(history) < budget
    /\ BeginRecord(t, FALSE)
    /\ UNCHANGED <<monfields, lock, events, last_downtime, mtmp, reported, own,
                   monframe>>

\* ---- log_attempt_success
\* line 139
MS_Lock(t) ==
    /\ MonGoto(t, "s_lock", "s_reset")
    /\ LockAvailable(lock)
    /\ lock' = t
    /\ UNCHANGED <<monfields, events, last_downtime, mtmp, reported, own,
                   history, monframe>>

MS_Reset_skipped(t) ==
    /\ MonGoto(t, "s_reset", "s_load")
    /\ UNCHANGED <<monfields, lock, events, last_downtime, mtmp, reported, own,
                   history, monframe>>

\* line 140
MS_Reset(t) ==
    /\ MonGoto(t, "s_reset", "s_load")
    /\ consecutive_failures' = 0
    /\ UNCHANGED <<total_attempts, total_failures, failure_window,
                   last_success_time, downtime_start, lock, events,
                   last_downtime, mtmp, reported, own, history, monframe>>

\* line 141, the read of self.total_attempts
MS_LoadAttempts(t) ==
    /\ MonGoto(t, "s_load", "s_store")
    /\ mtmp' = [mtmp EXCEPT ![t] = total_attempts]
    /\ UNCHANGED <<monfields, lock, events, last_downtime, reported, own,
                   history, monframe>>

\* line 141, the write of self.total_attempts
MS_StoreAttempts(t) ==
    /\ MonGoto(t, "s_store", "s_time")
    /\ total_attempts' = mtmp[t] + 1
    /\ mtmp' = [mtmp EXCEPT ![t] = 0]
    /\ UNCHANGED <<consecutive_failures, total_failures, failure_window,
                   last_success_time, downtime_start, lock, events,
                   last_downtime, reported, own, history, monframe>>

\* line 142
MS_SetSuccessTime(t) ==
    /\ MonGoto(t, "s_time", "s_down")
    /\ last_success_time' = now
    /\ UNCHANGED <<consecutive_failures, total_attempts, total_failures,
                   failure_window, downtime_start, lock, events,
                   last_downtime, mtmp, reported, own, history, monframe>>

\* lines 145-147: SERVICE_RECOVERY when a downtime is open
MS_Recovery(t) ==
    /\ mpc[t] = "s_down"
    /\ IF downtime_start # None
       THEN /\ events' = [events EXCEPT !.recovery = @ + 1]
            /\ last_downtime' = now - downtime_start
            /\ mpc' = [mpc EXCEPT ![t] = "s_clear"]
       ELSE /\ mpc' = [mpc EXCEPT ![t] = "s_append"]
            /\ UNCHANGED <<events, last_downtime>>
    /\ UNCHANGED <<monfields, lock, mtmp, reported, own, history, monframe>>

MS_ClearDowntime_skipped(t) ==
    /\ MonGoto(t, "s_clear", "s_append")
    /\ UNCHANGED <<monfields, lock, events, last_downtime, mtmp, reported, own,
                   history, monframe>>

\* line 148
MS_ClearDowntime(t) ==
    /\ MonGoto(t, "s_clear", "s_append")
    /\ downtime_start' = None
    /\ UNCHANGED <<consecutive_failures, total_attempts, total_failures,
                   failure_window, last_success_time, lock, events,
                   last_downtime, mtmp, reported, own, history, monframe>>

\* line 151
MS_Append(t) ==
    /\ MonGoto(t, "s_append", "s_evict")
    /\ failure_window' = Append(failure_window, TRUE)
    /\ UNCHANGED <<consecutive_failures, total_attempts, total_failures,
                   last_success_time, downtime_start, lock, events,
                   last_downtime, mtmp, reported, own, history, monframe>>

\* lines 152-153 and the end of the `with` block
MS_Evict(t) ==
    /\ MonGoto(t, "s_evict", "s_log")
    /\ failure_window' = Evict(failure_window)
    /\ lock' = 0
    /\ UNCHANGED <<consecutive_failures, total_attempts, total_failures,
                   last_success_time, downtime_start, events,
                   last_downtime, mtmp, reported, own, history, monframe>>

\* lines 155-172: REQUEST_SUCCESS is logged, the call returns
MS_Log(t) ==
    /\ MonGoto(t, "s_log", "idle")
    /\ UNCHANGED <<monfields, lock, events, last_downtime, mtmp, reported, own,
                   history, monframe>>

\* ---- log_attempt_failure
\* line 178
MF_Lock(t) ==
    /\ MonGoto(t, "f_lock", "f_load_cf")
    /\ LockAvailable(lock)
    /\ lock' = t
    /\ UNCHANGED <<monfields, events, last_downtime, mtmp, reported, own,
                   history, monframe>>

\* line 179, the read of self.consecutive_failures
MF_LoadConsecutive(t) ==
    /\ MonGoto(t, "f_load_cf", "f_store_cf")
    /\ mtmp' = [mtmp EXCEPT ![t] = consecutive_failures]
    /\ UNCHANGED <<monfields, lock, events, last_downtime, reported, own,
                   history, monframe>>

\* line 179, the write of self.consecutive_failures
MF_StoreConsecutive(t) ==
    /\ MonGoto(t, "f_store_cf", "f_load_ta")
    /\ consecutive_failures' = mtmp[t] + 1
    /\ mtmp' = [mtmp EXCEPT ![t] = 0]
    /\ own' = [own EXCEPT ![t].cf = mtmp[t] + 1]
    /\ UNCHANGED <<total_attempts, total_failures, failure_window,
                   last_success_time, downtime_start, lock, events,
                   last_downtime, reported, history, monframe>>

\* line 180, the read of self.total_attempts
MF_LoadAttempts(t) ==
    /\ MonGoto(t, "f_load_ta", "f_store_ta")
    /\ mtmp' = [mtmp EXCEPT ![t] = total_attempts]
    /\ UNCHANGED <<monfields, lock, events, last_downtime, reported, own,
                   history, monframe>>

\* line 180, the write of self.total_attempts
MF_StoreAttempts(t) ==
    /\ MonGoto(t, "f_store_ta", "f_load_tf")
    /\ total_attempts' = mtmp[t] + 1
    /\ mtmp' = [mtmp EXCEPT ![t] = 0]
    /\ UNCHANGED <<consecutive_failures, total_failures, failure_window,
                   last_success_time, downtime_start, lock, events,
                   last_downtime, reported, own, history, monframe>>

\* line 181, the read of self.total_failures
MF_LoadFailures(t) ==
    /\ MonGoto(t, "f_load_tf", "f_store_tf")
    /\ mtmp' = [mtmp EXCEPT ![t] = total_failures]
    /\ UNCHANGED <<monfields, lock, events, last_downtime, reported, own,
                   history, monframe>>

MF_StoreFailures_skipped(t) ==
    /\ MonGoto(t, "f_store_tf", "f_down")
    /\ total_failures' = total_failures
    /\ mtmp' = [mtmp EXCEPT ![t] = 0]
    /\ own' = [own EXCEPT ![t].tf = mtmp[t] + 1]
    /\ UNCHANGED <<consecutive_failures, total_attempts, failure_window,
                   last_success_time, downtime_start, lock, events,
                   last_downtime, reported, history, monframe>>

\* line 181, the write of self.total_failures
MF_StoreFailures(t) ==
    /\ MonGoto(t, "f_store_tf", "f_down")
    /\ total_failures' = mtmp[t] + 1
    /\ mtmp' = [mtmp EXCEPT ![t] = 0]
    /\ own' = [own EXCEPT ![t].tf = mtmp[t] + 1]
    /\ UNCHANGED <<consecutive_failures, total_attempts, failure_window,
                   last_success_time, downtime_start, lock, events,
                   last_downtime, reported, history, monframe>>

MF_MarkDowntime_always(t) ==
    /\ MonGoto(t, "f_down", "f_append")
    /\ downtime_start' = now
    /\ UNCHANGED <<consecutive_failures, total_attempts, total_failures,
                   failure_window, last_success_time, lock, events,
                   last_downtime, mtmp, reported, own, history, monframe>>

\* lines 184-185
MF_MarkDowntime(t) ==
    /\ MonGoto(t, "f_down", "f_append")
    /\ downtime_start' = IF consecutive_failures = 1 THEN now
                         ELSE downtime_start
    /\ UNCHANGED <<consecutive_failures, total_attempts, total_failures,
                   failure_window, last_success_time, lock, events,
                   last_downtime, mtmp, reported, own, history, monframe>>

\* line 188
MF_Append(t) ==
    /\ MonGoto(t, "f_append", "f_evict")
    /\ failure_window' = Append(failure_window, FALSE)
    /\ UNCHANGED <<consecutive_failures, total_attempts, total_failures,
                   last_success_time, downtime_start, lock, events,
                   last_downtime, mtmp, reported, own, history, monframe>>

\* lines 189-190 and the end of the `with` block
MF_Evict(t) ==
    /\ MonGoto(t, "f_evict", "f_log")
    /\ failure_window' = Evict(failure_window)
    /\ lock' = 0
    /\ UNCHANGED <<consecutive_failures, total_attempts, total_failures,
                   last_success_time, downtime_start, events,
                   last_downtime, mtmp, reported, own, history, monframe>>

\* lines 193-216: REQUEST_FAILURE with the statistics read here
MF_Log(t) ==
    /\ MonGoto(t, "f_log", "f_alert_cf")
    /\ reported' = [reported EXCEPT
                      ![t] = <<consecutive_failures, total_failures>>]
    /\ UNCHANGED <<monfields, lock, events, last_downtime, mtmp, own,
                   history, monframe>>

MF_AlertConsecutive_above(t) ==
    /\ MonGoto(t, "f_alert_cf", "f_alert_rate")
    /\ events' = IF consecutive_failures > ConsecutiveFailureThreshold
                 THEN [events EXCEPT !.critical = @ + 1]
                 ELSE events
    /\ UNCHANGED <<monfields, lock, last_downtime, mtmp, reported, own,
                   history, monframe>>

\* lines 233-242
MF_AlertConsecutive(t) ==
    /\ MonGoto(t, "f_alert_cf", "f_alert_rate")
    /\ events' = IF consecutive_failures >= ConsecutiveFailureThreshold
                 THEN [events EXCEPT !.critical = @ + 1]
                 ELSE events
    /\ UNCHANGED <<monfields, lock, last_downtime, mtmp, reported, own,
                   history, monframe>>

\* lines 245-254, the call returns
MF_AlertRate(t) ==
    /\ MonGoto(t, "f_alert_rate", "idle")
    /\ events' = IF HighFailureRate(failure_window)
                 THEN [events EXCEPT !.warning = @ + 1]
                 ELSE events
    /\ own' = [own EXCEPT ![t] = NoCounters]
    /\ UNCHANGED <<monfields, lock, last_downtime, mtmp, reported, history,
                   monframe>>

Mon_Step(t) ==
    \/ MS_Lock(t)
    \/ MS_Reset(t)
    \/ MS_LoadAttempts(t)
    \/ MS_StoreAttempts(t)
    \/ MS_SetSuccessTime(t)
    \/ MS_Recovery(t)
    \/ MS_ClearDowntime(t)
    \/ MS_Append(t)
    \/ MS_Evict(t)
    \/ MS_Log(t)
    \/ MF_Lock(t)
    \/ MF_LoadConsecutive(t)
    \/ MF_StoreConsecutive(t)
    \/ MF_LoadAttempts(t)
    \/ MF_StoreAttempts(t)
    \/ MF_LoadFailures(t)
    \/ MF_StoreFailures(t)
    \/ MF_MarkDowntime(t)
    \/ MF_Append(t)
    \/ MF_Evict(t)
    \/ MF_Log(t)
    \/ MF_AlertConsecutive(t)
    \/ MF_AlertRate(t)

\* --------------------------------------------------------- executor_node
\* http_reader.py:65, the text of the exception of a rejected call
OpenText == <<"Circuit", "breaker", "is", "OPEN", "-", "API",
              "temporarily", "unavailable">>

\* databricks.py:60-88, text of the exception the query raises when the
\* connection to the warehouse times out
QueryErrorTexts == {<<"Connection", "timed", "out">>}

\* nodes.py:150, str(e) for the exception execute_query left through
ExecErrorTexts(res) ==
    IF res = "rejected" THEN {OpenText} ELSE QueryErrorTexts

\* nodes.py:152, the failure type handed to log_attempt_failure
RecordedKind(text) == "DB_ERROR"

\* nodes.py:123-133: log_attempt_start (no monitor field changes), then
\* DatabricksService.execute_query enters the breaker (databricks.py:56-57)
Exec_Start(t) ==
    /\ t <= ncallers
    /\ outer[t] = "idle"
    /\ ncalls < MaxCalls
    /\ ncalls' = ncalls + 1
    /\ outer' = [outer EXCEPT ![t] = "query"]
    /\ LogAttemptStart(t)
    /\ Enter(t)
    /\ UNCHANGED <<cbvars, cfg, clsvars, clock, tmp, raised_at, calls,
                   monfields, lock, last_downtime, mtmp, reported, own,
                   history, httpvars>>

Exec_Outcome_success_only(t) ==
    /\ outer[t] = "query"
    /\ pc[t] = "idle"
    /\ outer' = [outer EXCEPT ![t] = "record"]
    /\ IF result[t] = "returned"
       THEN BeginRecord(t, TRUE)
       ELSE /\ mpc' = [mpc EXCEPT ![t] = "idle"]
            /\ UNCHANGED history
    /\ UNCHANGED <<monfields, lock, events, last_downtime, mtmp, reported,
                   own, cbvars, cfg, clsvars, clock, pc, tmp, result, trial,
                   raised_at, calls, ncalls, httpvars>>

\* nodes.py:136-145 when execute_query returned, :150-152 when it raised
Exec_Outcome(t) ==
    /\ outer[t] = "query"
    /\ pc[t] = "idle"
    /\ outer' = [outer EXCEPT ![t] = "record"]
    /\ BeginRecord(t, result[t] = "returned")
    /\ IF result[t] = "returned"
       THEN UNCHANGED clsvars
       ELSE \E text \in ExecErrorTexts(result[t]) :
                /\ error_message' = text
                /\ kind' = RecordedKind(text)
    /\ UNCHANGED <<monfields, lock, events, last_downtime, mtmp, reported,
                   own, cbvars, cfg, clock, pc, tmp, result, trial,
                   raised_at, calls, ncalls, httpvars>>

\* nodes.py:147-148 and :153-156: the node returns, its locals are gone
Exec_Return(t) ==
    /\ outer[t] = "record"
    /\ mpc[t] = "idle"
    /\ outer' = [outer EXCEPT ![t] = "idle"]
    /\ error_message' = <<>>
    /\ kind' = "none"
    /\ UNCHANGED <<cbvars, cfg, clock, pc, tmp, result, trial,
                   raised_at, calls, ncalls, monvars, httpvars>>

\* ------------------------------------------------------------ HTTPReader
httpframe == <<cbvars, cfg, clsvars, clock, tmp, raised_at, monvars,
               txvars>>

\* http_reader.py:145: make_request_with_circuit_breaker(payload, op)
HTTP_Call(t, op) ==
    /\ t <= ncallers
    /\ outer[t] = "idle"
    /\ ncalls < MaxCalls
    /\ ncalls' = ncalls + 1
    /\ opkey' = [opkey EXCEPT ![t] = op]
    /\ hret' = [hret EXCEPT ![t] = "none"]
    /\ outer' = [outer EXCEPT ![t] = "rl_check"]
    /\ UNCHANGED <<last_request_time, wake, retval, sent, pc, result, trial,
                   calls, httpframe>>

\* a caller invokes _apply_rate_limiting(op) directly
RL_Call(t, op) ==
    /\ t <= ncallers
    /\ outer[t] = "idle"
    /\ ncalls < MaxCalls
    /\ ncalls' = ncalls + 1
    /\ opkey' = [opkey EXCEPT ![t] = op]
    /\ outer' = [outer EXCEPT ![t] = "rl_check"]
    /\ UNCHANGED <<last_request_time, wake, retval, hret, sent, pc, result,
                   trial, calls, httpframe>>

MustWait_never(last, nw) == FALSE

MustWait_always(last, nw) == TRUE

\* http_reader.py:133-135
MustWait(last, nw) == last # None /\ nw - last < RateLimitDelay

\* http_reader.py:131-141: the gate and the start of time.sleep(wait_time)
RL_Check(t) ==
    /\ outer[t] = "rl_check"
    /\ IF MustWait(last_request_time[opkey[t]], now)
       THEN /\ wake' = [wake EXCEPT ![t] =
                   now + (RateLimitDelay - (now - last_request_time[opkey[t]]))]
            /\ outer' = [outer EXCEPT ![t] = "rl_sleep"]
       ELSE /\ outer' = [outer EXCEPT ![t] = "rl_stamp"]
            /\ UNCHANGED wake
    /\ UNCHANGED <<last_request_time, opkey, retval, hret, sent, pc, result,
                   trial, calls, ncalls, httpframe>>

\* http_reader.py:141: time.sleep returns once wait_time has passed
RL_Wake(t) ==
    /\ outer[t] = "rl_sleep"
    /\ now >= wake[t]
    /\ wake' = [wake EXCEPT ![t] = None]
    /\ outer' = [outer EXCEPT ![t] = "rl_stamp"]
    /\ UNCHANGED <<last_request_time, opkey, retval, hret, sent, pc, result,
                   trial, calls, ncalls, httpframe>>

RL_Stamp_skipped(t) ==
    /\ outer[t] = "rl_stamp"
    /\ last_request_time' = last_request_time
    /\ outer' = [outer EXCEPT ![t] = "breaker"]
    /\ Enter(t)
    /\ UNCHANGED <<opkey, wake, retval, hret, sent, calls, ncalls, httpframe>>

\* http_reader.py:143, then :151-153 enters the breaker
RL_Stamp(t) ==
    /\ outer[t] = "rl_stamp"
    /\ last_request_time' = [last_request_time EXCEPT ![opkey[t]] = now]
    /\ outer' = [outer EXCEPT ![t] = "breaker"]
    /\ Enter(t)
    /\ UNCHANGED <<opkey, wake, retval, hret, sent, calls, ncalls, httpframe>>

\* http_reader.py:143, then _apply_rate_limiting returns to its caller
RL_Return(t) ==
    /\ outer[t] = "rl_stamp"
    /\ last_request_time' = [last_request_time EXCEPT ![opkey[t]] = now]
    /\ outer' = [outer EXCEPT ![t] = "idle"]
    /\ UNCHANGED <<opkey, wake, retval, hret, sent, pc, result, trial, calls,
                   ncalls, httpframe>>

\* http_reader.py:233-277: what make_request returns for each response
MakeRequestResult(resp) ==
    CASE resp = "json"              -> "data"
      [] resp = "empty"             -> "error_empty"
      [] resp = "not_json"          -> "error_not_json"
      [] resp = "bad_json"          -> "error_json_decode"
      [] resp = "timeout"           -> "error_timeout"
      [] resp = "connection_error"  -> "error_connection"
      [] resp = "http_error"        -> "error_http"
      [] resp = "retries_exhausted" -> "error_unexpected"

\* http_reader.py:214-277: the request is sent, make_request returns
MR_Respond(t, resp) ==
    /\ outer[t] = "breaker"
    /\ pc[t] = "func"
    /\ retval' = [retval EXCEPT ![t] = MakeRequestResult(resp)]
    /\ sent' = IF resp = "json" THEN [sent EXCEPT !.ok = @ + 1]
               ELSE [sent EXCEPT !.failed = @ + 1]
    /\ pc' = [pc EXCEPT ![t] = "ok"]
    /\ UNCHANGED <<last_request_time, opkey, wake, hret, result, trial, calls,
                   ncalls, outer, httpframe>>

\* http_reader.py:188-212, the texts of the exceptions make_request lets
\* out: they come from the statements before its try block, headers.copy()
\* at line 188 and json.dumps(payload) at lines 203 and 209
FuncErrorTexts ==
    {<<"'NoneType'", "object", "has", "no", "attribute", "'copy'">>,
     <<"Object", "of", "type", "set", "is", "not", "JSON", "serializable">>,
     <<"Circular", "reference", "detected">>}

\* http_reader.py:156, the needle looked for in str(e)
OpenMarker == <<"Circuit", "breaker", "is", "OPEN">>

\* needle in text, both cut into words
Contains(text, needle) ==
    \E i \in 1..(Len(text) - Len(needle) + 1) :
        SubSeq(text, i, i + Len(needle) - 1) = needle

IsOpenRejection_always(text) == TRUE

\* http_reader.py:156, "Circuit breaker is OPEN" in str(e)
IsOpenRejection(text) == Contains(text, OpenMarker)

\* str(e) for the exception CircuitBreaker.call left through, none when
\* it returned
ExceptionTexts(res) ==
    CASE res = "rejected" -> {OpenText}
      [] res = "raised"   -> FuncErrorTexts
      [] res = "returned" -> {<<>>}

\* http_reader.py:153-158: the value of the breaker call is returned, its
\* exception is turned into the fallback or raised again
HTTP_Return(t) ==
    /\ outer[t] = "breaker"
    /\ pc[t] = "idle"
    /\ \E text \in ExceptionTexts(result[t]) :
           hret' = [hret EXCEPT ![t] =
                      IF result[t] = "returned" THEN retval[t]
                      ELSE IF IsOpenRejection(text) THEN "fallback"
                      ELSE "raised"]
    /\ outer' = [outer EXCEPT ![t] = "idle"]
    /\ UNCHANGED <<last_request_time, opkey, wake, retval, sent, pc, result,
                   trial, calls, ncalls, httpframe>>

\* ------------------------------------- make_request, attempt by attempt
\* session.post runs the Retry object configured at http_reader.py:115-121
\* (urllib3.util.retry.Retry as mounted by requests' HTTPAdapter): every
\* retry takes one from `total`, and the call gives up when total falls
\* below 0.
\* a response body: up to MaxBodyLen characters
BodyChars == {" ", "{", "}", "[", "]", "x"}

Bodies == UNION {[1..n -> BodyChars] : n \in 0..MaxBodyLen}

\* status codes the server answers with
Statuses == {200, 400, 404, 413, 429, 500, 503}

\* http_reader.py:117, status_forcelist
StatusForcelist == {429, 500, 502, 503, 504}

\* http_reader.py:120, respect_retry_after_header=True: the statuses for
\* which Retry honours a Retry-After header (Retry.RETRY_AFTER_STATUS_CODES)
RetryAfterStatuses == {413, 429, 503}

NoReply == [kind |-> "none", status |-> 0, retry_after |-> FALSE,
            body |-> <<>>]

\* what one transport attempt can end in: a response (a 2xx one with any
\* body, an error one with or without a Retry-After header) or a failure
\* of the connection
Replies ==
    {[kind |-> "response", status |-> 200, retry_after |-> FALSE,
      body |-> b] : b \in Bodies}
    \cup
    {[kind |-> "response", status |-> st, retry_after |-> ra,
      body |-> <<>>] : st \in Statuses \ {200}, ra \in BOOLEAN}
    \cup
    {[kind |-> k, status |-> 0, retry_after |-> FALSE, body |-> <<>>] :
        k \in {"connection_error", "connect_timeout", "read_timeout"}}

\* Retry.is_retry for a POST (line 118 allows the method) and the retries
\* of connection and read errors
IsRetry(reply, total) ==
    IF reply.kind = "response"
    THEN \/ reply.status \in StatusForcelist
         \/ /\ total # 0
            /\ reply.retry_after
            /\ reply.status \in RetryAfterStatuses
    ELSE TRUE

Exhausted_late(total) == total < -1

\* Retry.is_exhausted after Retry.increment took one from total
Exhausted(total) == total < 0

\* str.strip() for blanks
RECURSIVE LStrip(_)
LStrip(b) == IF b # <<>> /\ Head(b) = " " THEN LStrip(Tail(b)) ELSE b

RECURSIVE RStrip(_)
RStrip(b) ==
    IF b # <<>> /\ b[Len(b)] = " " THEN RStrip(SubSeq(b, 1, Len(b) - 1))
    ELSE b

Strip(b) == RStrip(LStrip(b))

\* json.loads accepts: over BodyChars the documents {} and [] with blanks
\* anywhere around and between the brackets
RECURSIVE Unblank(_)
Unblank(b) ==
    IF b = <<>> THEN <<>>
    ELSE IF Head(b) = " " THEN Unblank(Tail(b))
    ELSE <<Head(b)>> \o Unblank(Tail(b))

JsonParses(b) == Unblank(b) \in {<<"{", "}">>, <<"[", "]">>}

Validate_unstripped(b) ==
    IF b = <<>> \/ Strip(b) = <<>> THEN "empty"
    ELSE IF Head(b) \notin {"{", "["} THEN "not_json"
    ELSE IF ~JsonParses(b) THEN "bad_json"
    ELSE "json"

\* http_reader.py:236-257: the checks on response_text
Validate(b) ==
    IF b = <<>> \/ Strip(b) = <<>> THEN "empty"
    ELSE IF Head(Strip(b)) \notin {"{", "["} THEN "not_json"
    ELSE IF ~JsonParses(b) THEN "bad_json"
    ELSE "json"

\* how session.post and lines 233-277 end for the last reply: exhausted
\* retries raise RetryError (status), ConnectTimeout or ConnectionError;
\* raise_for_status raises HTTPError for a status of 400 or more
FinalResponse(reply, retried) ==
    CASE reply.kind = "connect_timeout" -> "timeout"
      [] reply.kind \in {"connection_error", "read_timeout"} ->
             "connection_error"
      [] reply.kind = "response" /\ retried -> "retries_exhausted"
      [] reply.kind = "response" /\ ~retried /\ reply.status >= 400 ->
             "http_error"
      [] OTHER -> Validate(reply.body)

\* a caller invokes make_request directly (http_reader.py:176-212)
MR_Call(t) ==
    /\ t <= ncallers
    /\ outer[t] = "idle"
    /\ ncalls < MaxCalls
    /\ ncalls' = ncalls + 1
    /\ outer' = [outer EXCEPT ![t] = "request"]
    /\ attempts' = [attempts EXCEPT ![t] = 0]
    /\ retries_left' = [retries_left EXCEPT ![t] = MaxRetries]
    /\ response' = [response EXCEPT ![t] = NoReply]
    /\ retval' = [retval EXCEPT ![t] = "none"]
    /\ UNCHANGED <<cbvars, cfg, clsvars, clock, pc, tmp, result, trial,
                   raised_at, calls, monvars, last_request_time, opkey,
                   wake, hret, sent>>

\* one transport attempt of session.post (http_reader.py:217-222) gets
\* `reply`: Retry decides whether session.post tries again; when it does
\* not, lines 224-277 turn the reply into the value make_request returns
MR_Attempt(t, reply) ==
    /\ outer[t] = "request"
    /\ attempts' = [attempts EXCEPT ![t] = @ + 1]
    /\ response' = [response EXCEPT ![t] = reply]
    /\ LET retry == IsRetry(reply, retries_left[t])
           left == retries_left[t] - 1
       IN  IF retry /\ ~Exhausted(left)
           THEN /\ retries_left' = [retries_left EXCEPT ![t] = left]
                /\ UNCHANGED <<outer, retval, sent>>
           ELSE /\ retval' = [retval EXCEPT ![t] =
                      MakeRequestResult(FinalResponse(reply, retry))]
                /\ sent' = IF FinalResponse(reply, retry) = "json"
                           THEN [sent EXCEPT !.ok = @ + 1]
                           ELSE [sent EXCEPT !.failed = @ + 1]
                /\ outer' = [outer EXCEPT ![t] = "idle"]
                /\ UNCHANGED retries_left
    /\ UNCHANGED <<cbvars, cfg, clsvars, clock, pc, tmp, result, trial,
                   raised_at, calls, ncalls, monvars, last_request_time,
                   opkey, wake, hret>>

\* -------------------------------------------------------- classify_error
\* An error message is a sequence of words (the text between blanks).
\* `needle in text` of Python is substring search: a one-word needle is
\* found inside a longer word as well (Parts), a needle of several words is
\* found where these words follow each other.
Words == {"timeout", "TIMEOUT", "timed", "out", "connection", "Connection",
          "refused", "failed", "access", "denied", "Forbidden", "403",
          "dns", "resolution", "json", "JSON", "decode", "404", "500",
          "sql", "mysql", "driver", "error"}

Messages == UNION {[1..n -> Words] : n \in 0..MaxMessageLen}

LowerWord_identity(w) == w

\* str.lower() of one word
LowerWord(w) ==
    CASE w = "TIMEOUT" -> "timeout"
      [] w = "Connection" -> "connection"
      [] w = "Forbidden" -> "forbidden"
      [] w = "JSON" -> "json"
      [] w = "Circuit" -> "circuit"
      [] w = "OPEN" -> "open"
      [] w = "API" -> "api"
      [] OTHER -> w

\* service_monitor.py:290, error_message.lower()
Lower(m) == [i \in 1..Len(m) |-> LowerWord(m[i])]

\* the needles of classify_error that occur inside the word w
Parts(w) == IF w = "mysql" THEN {"mysql", "sql"} ELSE {w}

\* needle in text
Has(text, needle) ==
    IF Len(needle) = 1
    THEN \E i \in 1..Len(text) : needle[1] \in Parts(text[i])
    ELSE \E i \in 1..(Len(text) - Len(needle) + 1) :
             SubSeq(text, i, i + Len(needle) - 1) = needle

\* the members of FailureType, service_monitor.py:25-34
FailureTypes == {"TIMEOUT", "CONNECTION_ERROR", "HTTP_ERROR",
                 "JSON_DECODE_ERROR", "ACCESS_DENIED", "DNS_ERROR",
                 "UNKNOWN_ERROR", "DB_ERROR"}

classify_error_status_first(m) ==
    LET error_lower == Lower(m)
    IN  IF \/ Has(error_lower, <<"timed", "out">>)
           \/ Has(error_lower, <<"timeout">>)
        THEN "TIMEOUT"
        ELSE IF /\ Has(error_lower, <<"connection">>)
                /\ \/ Has(error_lower, <<"refused">>)
                   \/ Has(error_lower, <<"failed">>)
        THEN "CONNECTION_ERROR"
        ELSE IF \/ Has(error_lower, <<"access", "denied">>)
                \/ Has(error_lower, <<"forbidden">>)
                \/ Has(error_lower, <<"403">>)
        THEN "ACCESS_DENIED"
        ELSE IF Has(error_lower, <<"dns", "resolution", "failed">>)
        THEN "DNS_ERROR"
        ELSE IF \E code \in {"404", "500", "502", "503", "504"} :
                   Has(error_lower, <<code>>)
        THEN "HTTP_ERROR"
        ELSE IF \/ Has(error_lower, <<"json", "decode">>)
                \/ Has(error_lower, <<"json">>)
        THEN "JSON_DECODE_ERROR"
        ELSE IF \/ Has(error_lower, <<"sql">>)
                \/ Has(error_lower, <<"database">>)
                \/ Has(error_lower, <<"driver">>)
        THEN "DB_ERROR"
        ELSE "UNKNOWN_ERROR"

\* service_monitor.py:288-307
classify_error(m) ==
    LET error_lower == Lower(m)
    IN  IF \/ Has(error_lower, <<"timed", "out">>)
           \/ Has(error_lower, <<"timeout">>)
        THEN "TIMEOUT"
        ELSE IF /\ Has(error_lower, <<"connection">>)
                /\ \/ Has(error_lower, <<"refused">>)
                   \/ Has(error_lower, <<"failed">>)
        THEN "CONNECTION_ERROR"
        ELSE IF \/ Has(error_lower, <<"access", "denied">>)
                \/ Has(error_lower, <<"forbidden">>)
                \/ Has(error_lower, <<"403">>)
        THEN "ACCESS_DENIED"
        ELSE IF Has(error_lower, <<"dns", "resolution", "failed">>)
        THEN "DNS_ERROR"
        ELSE IF \/ Has(error_lower, <<"json", "decode">>)
                \/ Has(error_lower, <<"json">>)
        THEN "JSON_DECODE_ERROR"
        ELSE IF \E code \in {"404", "500", "502", "503", "504"} :
                   Has(error_lower, <<code>>)
        THEN "HTTP_ERROR"
        ELSE IF \/ Has(error_lower, <<"sql">>)
                \/ Has(error_lower, <<"database">>)
                \/ Has(error_lower, <<"driver">>)
        THEN "DB_ERROR"
        ELSE "UNKNOWN_ERROR"

\* a caller invokes classify_error(error_message)
Classify ==
    /\ kind = "none"
    /\ kind' = classify_error(error_message)
    /\ UNCHANGED <<cbvars, cfg, clock, pc, tmp, result, trial, raised_at,
                   calls, ncalls, monvars, httpvars, outer, error_message>>

\* ------------------------------------------------------- specifications
\* CircuitBreaker.__init__, ServiceMonitor.__init__, HTTPReader.__init__
InitComponents ==
    /\ state = "CLOSED"
    /\ failure_count = 0
    /\ last_failure_time = None
    /\ now = 0
    /\ ticks = 0
    /\ millis = 0
    /\ pc = [t \in Callers |-> "idle"]
    /\ tmp = [t \in Callers |-> 0]
    /\ result = [t \in Callers |-> "none"]
    /\ trial = [t \in Callers |-> FALSE]
    /\ raised_at = None
    /\ calls = [raised |-> 0, returned |-> 0, rejected |-> 0]
    /\ ncalls = 0
    /\ consecutive_failures = 0
    /\ total_attempts = 0
    /\ total_failures = 0
    /\ failure_window = <<>>
    /\ last_success_time = None
    /\ downtime_start = None
    /\ lock = 0
    /\ events = [start |-> 0, recovery |-> 0, critical |-> 0, warning |-> 0,
                 ids |-> {}]
    /\ last_downtime = None
    /\ mpc = [t \in Callers |-> "idle"]
    /\ mtmp = [t \in Callers |-> 0]
    /\ reported = [t \in Callers |-> <<0, 0>>]
    /\ own = [t \in Callers |-> NoCounters]
    /\ history = <<>>
    /\ last_request_time = [op \in Operations |-> None]
    /\ opkey = [t \in Callers |-> "read_a"]
    /\ wake = [t \in Callers |-> None]
    /\ retval = [t \in Callers |-> "none"]
    /\ hret = [t \in Callers |-> "none"]
    /\ sent = [ok |-> 0, failed |-> 0]
    /\ attempts = [t \in Callers |-> 0]
    /\ retries_left = [t \in Callers |-> 0]
    /\ response = [t \in Callers |-> NoReply]
    /\ outer = [t \in Callers |-> "idle"]

\* no error message is being classified
InitCommon ==
    /\ InitComponents
    /\ error_message = <<>>
    /\ kind = "none"

\* a breaker with any threshold, called by several threads
Init ==
    /\ InitCommon
    /\ failure_threshold \in 1..MaxThreshold
    /\ timeout = ServiceTimeout
    /\ ncallers \in 1..MaxCallers
    /\ budget = RecordBudget

Next ==
    \/ \E t \in Callers : CB_Call(t)
    \/ \E t \in Callers : CB_Step(t)
    \/ \E t \in Callers : Func_Return(t)
    \/ \E t \in Callers : Func_Raise(t)
    \/ \E d \in TickSteps : Tick(d)

Spec == Init /\ [][Next]_vars

\* one caller: every call runs to completion before the next starts
InitSeq == Init /\ ncallers = 1

SpecSeq == InitSeq /\ [][Next]_vars

\* a ServiceMonitor shared by several threads
InitMon ==
    /\ InitCommon
    /\ failure_threshold = ServiceThreshold
    /\ timeout = ServiceTimeout
    /\ ncallers \in 1..MaxCallers
    /\ budget = RecordBudget

NextMon ==
    \/ \E t \in Callers : Mon_Start(t)
    \/ \E t \in Callers : Mon_Success(t)
    \/ \E t \in Callers : Mon_Failure(t)
    \/ \E t \in Callers : Mon_Step(t)

SpecMon == InitMon /\ [][NextMon]_vars

\* a ServiceMonitor used by one caller while the clock advances
InitMonSeq == InitMon /\ ncallers = 1

NextMonSeq ==
    \/ NextMon
    \/ Tick(1)

SpecMonSeq == InitMonSeq /\ [][NextMonSeq]_vars

\* a ServiceMonitor shared by several threads while the milliseconds pass
InitMonIds == InitMon

NextMonIds ==
    \/ NextMon
    \/ TickMillis

SpecMonIds == InitMonIds /\ [][NextMonIds]_vars

\* a ServiceMonitor used by one caller for more attempts than the sliding
\* window holds
InitMonWin ==
    /\ InitCommon
    /\ failure_threshold = ServiceThreshold
    /\ timeout = ServiceTimeout
    /\ ncallers = 1
    /\ budget = MaxWindowRecords

SpecMonWin == InitMonWin /\ [][NextMon]_vars

\* executor_node: the module-level monitor and the DatabricksService
\* breaker (databricks.py:31), one caller
InitExec ==
    /\ InitCommon
    /\ failure_threshold = ServiceThreshold
    /\ timeout = ServiceTimeout
    /\ ncallers = 1
    /\ budget = RecordBudget

NextExec ==
    \/ \E t \in Callers : Exec_Start(t)
    \/ \E t \in Callers : CB_Step(t)
    \/ \E t \in Callers : Func_Return(t)
    \/ \E t \in Callers : Func_Raise(t)
    \/ \E t \in Callers : Exec_Outcome(t)
    \/ \E t \in Callers : Mon_Step(t)
    \/ \E t \in Callers : Exec_Return(t)
    \/ \E d \in TickSteps : Tick(d)

SpecExec == InitExec /\ [][NextExec]_vars

\* executor_node while the clock advances by the breaker timeout, so that
\* a call is either rejected or admitted as the trial call
NextExecTrial ==
    \/ \E t \in Callers : Exec_Start(t)
    \/ \E t \in Callers : CB_Step(t)
    \/ \E t \in Callers : Func_Return(t)
    \/ \E t \in Callers : Func_Raise(t)
    \/ \E t \in Callers : Exec_Outcome(t)
    \/ \E t \in Callers : Mon_Step(t)
    \/ \E t \in Callers : Exec_Return(t)
    \/ Tick(timeout)

SpecExecTrial == InitExec /\ [][NextExecTrial]_vars

\* HTTPReader(enable_circuit_breaker=True): breaker (http_reader.py:111),
\* one caller
InitHTTP ==
    /\ InitCommon
    /\ failure_threshold = ServiceThreshold
    /\ timeout = ServiceTimeout
    /\ ncallers = 1
    /\ budget = RecordBudget

NextHTTP ==
    \/ \E t \in Callers, op \in Operations : HTTP_Call(t, op)
    \/ \E t \in Callers : RL_Check(t)
    \/ \E t \in Callers : RL_Wake(t)
    \/ \E t \in Callers : RL_Stamp(t)
    \/ \E t \in Callers : CB_Step(t)
    \/ \E t \in Callers, resp \in Responses : MR_Respond(t, resp)
    \/ \E t \in Callers : Func_Raise(t)
    \/ \E t \in Callers : HTTP_Return(t)
    \/ \E d \in TickSteps : Tick(d)

SpecHTTP == InitHTTP /\ [][NextHTTP]_vars

\* HTTPReader while the clock advances by a second (the rate limit delay)
\* or by the breaker timeout
NextHTTPTrial ==
    \/ \E t \in Callers, op \in Operations : HTTP_Call(t, op)
    \/ \E t \in Callers : RL_Check(t)
    \/ \E t \in Callers : RL_Wake(t)
    \/ \E t \in Callers : RL_Stamp(t)
    \/ \E t \in Callers : CB_Step(t)
    \/ \E t \in Callers, resp \in Responses : MR_Respond(t, resp)
    \/ \E t \in Callers : Func_Raise(t)
    \/ \E t \in Callers : HTTP_Return(t)
    \/ \E d \in {1, timeout} : Tick(d)

SpecHTTPTrial == InitHTTP /\ [][NextHTTPTrial]_vars

\* HTTPReader._apply_rate_limiting called by several threads while the
\* clock advances second by second
InitRate ==
    /\ InitCommon
    /\ failure_threshold = ServiceThreshold
    /\ timeout = ServiceTimeout
    /\ ncallers \in 1..MaxCallers
    /\ budget = RecordBudget

NextRate ==
    \/ \E t \in Callers, op \in Operations : RL_Call(t, op)
    \/ \E t \in Callers : RL_Check(t)
    \/ \E t \in Callers : RL_Wake(t)
    \/ \E t \in Callers : RL_Return(t)
    \/ Tick(1)

SpecRate == InitRate /\ [][NextRate]_vars

\* HTTPReader.make_request called directly by one caller
InitRequest ==
    /\ InitCommon
    /\ failure_threshold = ServiceThreshold
    /\ timeout = ServiceTimeout
    /\ ncallers = 1
    /\ budget = RecordBudget

NextRequest ==
    \/ \E t \in Callers : MR_Call(t)
    \/ \E t \in Callers, reply \in Replies : MR_Attempt(t, reply)

SpecRequest == InitRequest /\ [][NextRequest]_vars

\* classify_error applied to any message of up to MaxMessageLen words
InitClassify ==
    /\ InitComponents
    /\ failure_threshold = ServiceThreshold
    /\ timeout = ServiceTimeout
    /\ ncallers = 1
    /\ budget = RecordBudget
    /\ error_message \in Messages
    /\ kind = "none"

NextClassify == Classify

SpecClassify == InitClassify /\ [][NextClassify]_vars

\* ------------------------------------------------------------ properties
Idle(t) == pc[t] = "idle"

OnlyFailuresSoFar == calls.returned = 0 /\ calls.rejected = 0

\* t takes the step that evaluates the OPEN gate (lines 61-66)
GateStep(t) == pc[t] = "check" /\ pc'[t] # "check"

\* C1: on a fresh breaker used by one caller, fewer than failure_threshold
\* failed calls (and no other call) leave it CLOSED with failure_count equal
\* to the number of failures; failure_threshold failed calls leave it OPEN.
C1_ThresholdOpens ==
    (ncallers = 1 /\ Idle(1) /\ OnlyFailuresSoFar) =>
        /\ calls.raised < failure_threshold =>
               (state = "CLOSED" /\ failure_count = calls.raised)
        /\ calls.raised >= failure_threshold => state = "OPEN"

C1_Witness ==
    /\ ncallers = 1 /\ Idle(1) /\ OnlyFailuresSoFar
    /\ failure_threshold >= 2
    /\ calls.raised = failure_threshold
    /\ state = "OPEN"

\* C2: a call made while the breaker is OPEN and less than timeout seconds
\* after last_failure_time is rejected at the gate: the wrapped function is
\* not entered, the outcome is the breaker-open failure, and state,
\* failure_count and last_failure_time keep their values.
C2_OpenRejects ==
    [][\A t \in Callers :
          (/\ GateStep(t)
           /\ state = "OPEN"
           /\ last_failure_time # None
           /\ now - last_failure_time >= 0
           /\ now - last_failure_time < timeout)
          => (/\ pc'[t] = "idle"
              /\ result'[t] = "rejected"
              /\ UNCHANGED cbvars)]_vars

C2_Witness ==
    \E t \in Callers :
        /\ Idle(t) /\ result[t] = "rejected"
        /\ state = "OPEN"
        /\ now - last_failure_time >= 1
        /\ now - last_failure_time < timeout

\* C3: a call made while the breaker is OPEN and timeout seconds or more
\* after last_failure_time, however long after, is not rejected: it takes
\* the branch that sets HALF_OPEN and invokes the wrapped function.
C3_ElapsedAdmits ==
    [][\A t \in Callers :
          (/\ GateStep(t)
           /\ state = "OPEN"
           /\ last_failure_time # None
           /\ now - last_failure_time >= timeout)
          => pc'[t] = "half"]_vars

\* C4: with one caller, a call admitted as the HALF_OPEN trial that returns
\* leaves the breaker CLOSED with failure_count 0 and no last_failure_time;
\* one that raises leaves it OPEN with last_failure_time set no earlier
\* than the moment the function raised.
C4_TrialDecides ==
    \A t \in Callers :
        (ncallers = 1 /\ Idle(t) /\ trial[t]) =>
            /\ result[t] = "returned" =>
                   (/\ state = "CLOSED"
                    /\ failure_count = 0
                    /\ last_failure_time = None)
            /\ result[t] = "raised" =>
                   (/\ state = "OPEN"
                    /\ last_failure_time # None
                    /\ raised_at <= last_failure_time
                    /\ last_failure_time <= now)

C4_Witness ==
    \E t \in Callers :
        /\ ncallers = 1 /\ Idle(t) /\ trial[t]
        /\ result[t] = "raised"
        /\ calls.returned >= 1

\* C5: with one caller, a call that found the breaker CLOSED and whose
\* function returned leaves it CLOSED with failure_count 0.
C5_ClosedSuccessResets ==
    \A t \in Callers :
        (ncallers = 1 /\ Idle(t) /\ result[t] = "returned" /\ ~trial[t]) =>
            (state = "CLOSED" /\ failure_count = 0)

\* C6: at most one call admitted past the OPEN gate after the timeout, or
\* while HALF_OPEN, has the wrapped function in progress.
C6_SingleTrial ==
    Cardinality({t \in Callers : trial[t] /\ pc[t] = "func"}) <= 1

\* C7: with the HTTPReader breaker enabled and one caller, as long as every
\* request sent so far failed (and no call raised or was rejected), the
\* breaker has counted each of them: failure_count is their number below
\* the threshold of 3, and from 3 failed requests on the breaker is OPEN.
C7_FailedRequestsCounted ==
    (/\ ncallers = 1
     /\ \A t \in Callers : outer[t] = "idle"
     /\ sent.ok = 0 /\ calls.raised = 0 /\ calls.rejected = 0)
    => /\ sent.failed < ServiceThreshold => failure_count = sent.failed
       /\ sent.failed >= ServiceThreshold => state = "OPEN"

\* C8: while executor_node handles a call that the breaker rejected, no
\* step changes total_attempts, total_failures, consecutive_failures or
\* failure_window.
C8_RejectedNotCounted ==
    [][\A t \in Callers :
          (outer[t] = "record" /\ result[t] = "rejected")
          => UNCHANGED <<total_attempts, total_failures,
                         consecutive_failures, failure_window>>]_vars

\* length of the run of failures that ends the sequence h
TrailingFailures(h) ==
    LET ok == {i \in 1..Len(h) : h[i]}
    IN  IF ok = {} THEN Len(h)
        ELSE Len(h) - (CHOOSE i \in ok : \A j \in ok : j <= i)

MonitorQuiet == \A t \in Callers : mpc[t] = "idle"

\* C9: with one caller, after any sequence of recorded outcomes
\* total_attempts is their number, total_failures the number of failures
\* among them and consecutive_failures the length of the trailing run of
\* failures (3, 1 and 0 after success, failure, success).
C9_Accounting ==
    (ncallers = 1 /\ MonitorQuiet) =>
        /\ total_attempts = Len(history)
        /\ total_failures = FailuresIn(history)
        /\ consecutive_failures = TrailingFailures(history)

C9_Witness ==
    /\ ncallers = 1 /\ MonitorQuiet
    /\ history = <<TRUE, FALSE, TRUE>>
    /\ total_attempts = 3 /\ total_failures = 1
    /\ consecutive_failures = 0

\* the monitor after recording, one call after the other, the first k
\* outcomes of h (section 4.5 of the specification)
RECURSIVE SequentialRun(_, _)
SequentialRun(h, k) ==
    IF k = 0
    THEN [cf |-> 0, win |-> <<>>, down |-> FALSE]
    ELSE LET m == SequentialRun(h, k - 1)
         IN  IF h[k]
             THEN [cf |-> 0,
                   win |-> Evict(Append(m.win, TRUE)),
                   down |-> FALSE]
             ELSE [cf |-> m.cf + 1,
                   win |-> Evict(Append(m.win, FALSE)),
                   down |-> IF m.cf = 0 THEN TRUE ELSE m.down]

\* every order in which the recorded outcomes can be arranged
Orders(h) ==
    {o \in [1..Len(h) -> BOOLEAN] : FailuresIn(o) = FailuresIn(h)}

\* C10: whenever all concurrent log_attempt_success/log_attempt_failure
\* calls have returned, total_attempts is the number of calls,
\* total_failures the number of failures, and consecutive_failures,
\* failure_window and downtime_start are those of some sequential order of
\* the same calls.
C10_NoLostUpdate ==
    MonitorQuiet =>
        /\ total_attempts = Len(history)
        /\ total_failures = FailuresIn(history)
        /\ \E o \in Orders(history) :
               SequentialRun(o, Len(history)) =
                   [cf |-> consecutive_failures,
                    win |-> failure_window,
                    down |-> downtime_start # None]

\* two overlapping calls: the failure was called first, the success went
\* through the lock first
C10_Witness ==
    /\ ncallers >= 2 /\ MonitorQuiet
    /\ history = <<FALSE, TRUE>>
    /\ consecutive_failures = 1
    /\ total_attempts = 2

\* C11: k calls that fail on a CLOSED breaker with failure_count 0, issued
\* by any number of threads and with no call succeeding or being rejected,
\* leave failure_count = k once all of them have returned.
C11_NoLostFailureCount ==
    ((\A t \in Callers : Idle(t)) /\ OnlyFailuresSoFar) =>
        failure_count = calls.raised

\* C12: in every reachable state, also between the steps of interleaved
\* calls, state = OPEN implies that last_failure_time is set.
C12_OpenHasFailureTime ==
    state = "OPEN" => last_failure_time # None

\* downtime_start is set exactly when a failure streak is open
DowntimeTracksStreak ==
    (downtime_start # None) <=> (consecutive_failures >= 1)

\* C13: whenever the monitor's lock is free, downtime_start is set if and
\* only if consecutive_failures >= 1; it becomes set only in the failure
\* that made consecutive_failures 1 (to the time of that failure), keeps its
\* value through the later failures of the streak, and is cleared only by a
\* success.
C13_DowntimeIffStreak ==
    [][/\ lock = 0 => DowntimeTracksStreak
       /\ lock' = 0 => DowntimeTracksStreak'
       /\ (downtime_start = None /\ downtime_start' # None) =>
              \E t \in Callers :
                  /\ mpc[t] = "f_down" /\ mpc'[t] = "f_append"
                  /\ consecutive_failures = 1
                  /\ downtime_start' = now
       /\ (downtime_start # None /\ downtime_start' # None) =>
              downtime_start' = downtime_start
       /\ (downtime_start # None /\ downtime_start' = None) =>
              \E t \in Callers :
                  mpc[t] = "s_clear" /\ consecutive_failures = 0]_vars

\* the second failure of a streak has just passed lines 184-185, later than
\* the first one
C13_Witness ==
    /\ \E t \in Callers : mpc[t] = "f_append"
    /\ consecutive_failures = 2
    /\ downtime_start # None
    /\ downtime_start < now

\* successes that directly follow a failure: the ends of failure streaks
StreaksEnded(h) == Cardinality({i \in 2..Len(h) : h[i] /\ ~h[i - 1]})

\* C14: with one caller, once every call has returned the number of
\* SERVICE_RECOVERY events equals the number of failure streaks that were
\* followed by a success (one event per streak, none for a success that
\* follows a success or comes first), the reported downtime is >= 0, and
\* after a success downtime_start is cleared.
C14_OneRecoveryPerStreak ==
    (ncallers = 1 /\ MonitorQuiet) =>
        /\ events.recovery = StreaksEnded(history)
        /\ events.recovery > 0 => last_downtime >= 0
        /\ (history # <<>> /\ history[Len(history)]) =>
               downtime_start = None

\* a streak of two failures ended by a success one tick or more after it
\* began, followed by one more success
C14_Witness ==
    /\ ncallers = 1 /\ MonitorQuiet
    /\ history = <<FALSE, FALSE, TRUE, TRUE>>
    /\ events.recovery = 1
    /\ last_downtime >= 1
    /\ downtime_start = None

Min(a, b) == IF a <= b THEN a ELSE b

\* the last n elements of h
LastN(h, n) == SubSeq(h, Len(h) - n + 1, Len(h))

\* C15: with the lock free failure_window holds at most window_size
\* outcomes; once the calls of a single caller have returned it is the
\* sequence of the most recent min(k, window_size) of the k recorded
\* outcomes in arrival order, and _calculate_failure_rate gives the number
\* of failures among them over their number, 0.0 for an empty window.
C15_SlidingWindow ==
    /\ lock = 0 => Len(failure_window) <= WindowSize
    /\ MonitorQuiet =>
           LET recent == LastN(history, Min(Len(history), WindowSize))
           IN /\ failure_window = recent
              /\ CalculateFailureRate(failure_window) =
                     IF history = <<>> THEN [num |-> 0, den |-> 1]
                     ELSE [num |-> FailuresIn(recent),
                           den |-> Min(Len(history), WindowSize)]

\* one outcome more than the window holds was recorded and the oldest one,
\* which differs from its successor, is gone
C15_Witness ==
    /\ MonitorQuiet
    /\ Len(history) = WindowSize + 1
    /\ history[1] # history[2]
    /\ failure_window = Tail(history)

\* the thread is inside log_attempt_failure
InFailure(t) ==
    mpc[t] \in {"f_lock", "f_load_cf", "f_store_cf", "f_load_ta",
                "f_store_ta", "f_load_tf", "f_store_tf", "f_down",
                "f_append", "f_evict", "f_log", "f_alert_cf",
                "f_alert_rate"}

\* failures of h that end a run of at least ConsecutiveFailureThreshold
\* failures
CriticalDue(h) ==
    Cardinality({i \in 1..Len(h) :
                    /\ ~h[i]
                    /\ TrailingFailures(SubSeq(h, 1, i)) >=
                           ConsecutiveFailureThreshold})

\* C16: with a single caller, once its calls have returned the number of
\* CRITICAL alerts equals the number of failures that left at least
\* consecutive_failure_threshold consecutive failures (each such failure
\* emits one, no other failure emits any), and no step of
\* log_attempt_start or log_attempt_success emits an alert of any kind.
C16_CriticalIffThreshold ==
    /\ [](MonitorQuiet => events.critical = CriticalDue(history))
    /\ [][\A t \in Callers :
              (mpc[t] # mpc'[t] /\ ~InFailure(t)) =>
                  /\ events'.critical = events.critical
                  /\ events'.warning = events.warning]_vars

\* three failures, then a success and one more failure: only the third
\* failure raised the alert
C16_Witness ==
    /\ MonitorQuiet
    /\ history = <<FALSE, FALSE, FALSE, TRUE, FALSE>>
    /\ events.critical = 1

\* failures of h that bring the run of failures to exactly
\* ConsecutiveFailureThreshold: the threshold crossings
Crossings(h) ==
    Cardinality({i \in 1..Len(h) :
                    /\ ~h[i]
                    /\ TrailingFailures(SubSeq(h, 1, i)) =
                           ConsecutiveFailureThreshold})

\* C17: with a single caller, once its calls have returned the number of
\* CRITICAL alerts equals the number of threshold crossings: one alert by
\* the failure that brings consecutive_failures to the threshold, none by
\* the fourth, fifth, ... failure of the same streak.
C17_OncePerCrossing ==
    MonitorQuiet => events.critical = Crossings(history)

\* the sliding window as it is after the first i outcomes of h
WindowAfter(h, i) == LastN(SubSeq(h, 1, i), Min(i, WindowSize))

\* failures of h after which the window holds at least MinSamples outcomes
\* of which at least 8 in 10 are failures
WarningDue(h) ==
    Cardinality({i \in 1..Len(h) :
                    /\ ~h[i]
                    /\ Len(WindowAfter(h, i)) >= MinSamples
                    /\ 10 * FailuresIn(WindowAfter(h, i)) >=
                           8 * Len(WindowAfter(h, i))})

\* C18: with a single caller, once its calls have returned the number of
\* WARNING alerts equals the number of failures after whose push the window
\* held at least 5 samples with failures / length >= 0.8 (each such failure
\* emits one, no other failure emits any).
C18_WarningIffHighRate ==
    MonitorQuiet => events.warning = WarningDue(history)

\* a success and nine failures: the window of 10 holds 9 failures, and the
\* failures 5 to 10 raised the alert (4 of 5 up to 9 of 10), the failures
\* 2 to 4 (windows of 2 to 4 samples) did not
C18_Witness ==
    /\ MonitorQuiet
    /\ history = <<TRUE, FALSE, FALSE, FALSE, FALSE, FALSE, FALSE, FALSE,
                   FALSE, FALSE>>
    /\ FailuresIn(failure_window) = 9
    /\ events.warning = 6

\* C19: the REQUEST_FAILURE event of a log_attempt_failure call reports
\* the consecutive_failures and total_failures that its own increments
\* produced, and a call whose increment took consecutive_failures to the
\* threshold or above emits a CRITICAL alert, whatever other threads
\* record meanwhile.
C19_OwnValuesUsed ==
    [][\A t \in Callers :
          /\ (mpc[t] = "f_log" /\ mpc'[t] = "f_alert_cf") =>
                 reported'[t] = <<own[t].cf, own[t].tf>>
          /\ (/\ mpc[t] = "f_alert_cf" /\ mpc'[t] = "f_alert_rate"
              /\ own[t].cf >= ConsecutiveFailureThreshold) =>
                 events'.critical = events.critical + 1]_vars

\* the rule list of classify_error: a rule matches a text that holds one of
\* the phrases of `any` and, when `with` is not empty, one of `with`
Rules ==
    <<[kind |-> "TIMEOUT",
       any |-> {<<"timed", "out">>, <<"timeout">>}, with |-> {}],
      [kind |-> "CONNECTION_ERROR",
       any |-> {<<"connection">>},
       with |-> {<<"refused">>, <<"failed">>}],
      [kind |-> "ACCESS_DENIED",
       any |-> {<<"access", "denied">>, <<"forbidden">>, <<"403">>},
       with |-> {}],
      [kind |-> "DNS_ERROR",
       any |-> {<<"dns", "resolution", "failed">>}, with |-> {}],
      [kind |-> "JSON_DECODE_ERROR",
       any |-> {<<"json", "decode">>, <<"json">>}, with |-> {}],
      [kind |-> "HTTP_ERROR",
       any |-> {<<"404">>, <<"500">>, <<"502">>, <<"503">>, <<"504">>},
       with |-> {}],
      [kind |-> "DB_ERROR",
       any |-> {<<"sql">>, <<"database">>, <<"driver">>}, with |-> {}]>>

Matches(rule, text) ==
    /\ \E p \in rule.any : Has(text, p)
    /\ rule.with = {} \/ \E p \in rule.with : Has(text, p)

\* the kind of the first rule from the i-th on that matches
RECURSIVE FirstMatch(_, _)
FirstMatch(text, i) ==
    IF i > Len(Rules) THEN "UNKNOWN_ERROR"
    ELSE IF Matches(Rules[i], text) THEN Rules[i].kind
    ELSE FirstMatch(text, i + 1)

\* C20: for every message classify_error returns a member of FailureType,
\* namely the kind of the first rule of the ordered list that matches the
\* message with its letters lowered, and UNKNOWN_ERROR when none matches.
C20_FirstMatchWins ==
    kind # "none" =>
        /\ kind \in FailureTypes
        /\ kind = FirstMatch(Lower(error_message), 1)

\* a message in capitals that also matches the later HTTP_ERROR and
\* DB_ERROR rules
C20_Witness ==
    /\ error_message = <<"JSON", "500", "mysql">>
    /\ kind = "JSON_DECODE_ERROR"

\* the message holds "timeout" or "timed out", in small or capital letters
MentionsTimeout(m) ==
    \/ \E i \in 1..Len(m) : m[i] \in {"timeout", "TIMEOUT"}
    \/ \E i \in 1..(Len(m) - 1) : m[i] = "timed" /\ m[i + 1] = "out"

\* C21: classify_error returns TIMEOUT for every message that holds
\* "timeout" or "timed out" in any letter case, whatever else it holds.
C21_TimeoutFirst ==
    (kind # "none" /\ MentionsTimeout(error_message)) => kind = "TIMEOUT"

\* "TIMEOUT" in capitals between "403" and "sql"
C21_Witness ==
    /\ error_message = <<"403", "TIMEOUT", "sql">>
    /\ kind = "TIMEOUT"

\* t executes line 143 of _apply_rate_limiting: it passes the gate
PassesGate(t) == outer[t] = "rl_stamp" /\ outer'[t] # "rl_stamp"

\* C22: with a single caller, a call of _apply_rate_limiting for a key that
\* has a recorded timestamp passes the gate only when at least
\* rate_limit_delay has passed since that timestamp, and on return the
\* recorded timestamp of the key is the time of return.
C22_MinimumGap ==
    [][\A t \in Callers :
          (ncallers = 1 /\ PassesGate(t)) =>
              /\ last_request_time[opkey[t]] # None =>
                     now - last_request_time[opkey[t]] >= RateLimitDelay
              /\ last_request_time'[opkey[t]] = now']_vars

\* two successive calls for the same key have returned, a second apart
C22_Witness ==
    /\ ncallers = 1 /\ outer[1] = "idle"
    /\ ncalls = 2 /\ ticks = 1 /\ now = 1
    /\ last_request_time["read_a"] = 1
    /\ last_request_time["read_b"] = None

\* C23: whatever the number of threads that call _apply_rate_limiting for
\* one key, a caller passes the gate for that key only when at least
\* rate_limit_delay has passed since the previous caller passed it.
C23_GapUnderConcurrency ==
    [][\A t \in Callers :
          (PassesGate(t) /\ last_request_time[opkey[t]] # None) =>
              now - last_request_time[opkey[t]] >= RateLimitDelay]_vars

\* C24: a call of _apply_rate_limiting for a key without a recorded
\* timestamp does not sleep; a call sleeps only when the timestamp of its
\* own key is less than rate_limit_delay old, and then until that
\* timestamp plus rate_limit_delay; no step of a call changes the
\* timestamp of another key.
C24_PerKey ==
    [][\A t \in Callers :
          outer[t] # outer'[t] =>
              /\ (outer[t] = "rl_check" /\
                      last_request_time[opkey[t]] = None) =>
                     outer'[t] = "rl_stamp"
              /\ outer'[t] = "rl_sleep" =>
                     /\ last_request_time[opkey[t]] # None
                     /\ now - last_request_time[opkey[t]] < RateLimitDelay
                     /\ wake'[t] =
                            last_request_time[opkey[t]] + RateLimitDelay
              /\ \A op \in Operations \ {opkey'[t]} :
                     last_request_time'[op] = last_request_time[op]]_vars

\* calls for read_a and read_b have both passed the gate in second 1: the
\* later one did not wait for the fresh timestamp of the other key
C24_Witness ==
    /\ \A t \in Callers : outer[t] = "idle"
    /\ last_request_time["read_a"] = 1
    /\ last_request_time["read_b"] = 1
    /\ ncalls = 2 /\ now = 1

\* make_request has returned to t
Returned(t) == outer[t] = "idle" /\ response[t] # NoReply

\* C25: one make_request call makes at most 1 + max_retries transport
\* attempts; a call whose last reply had a status of the retry list has
\* made all of them and returns an error value, not a payload.
C25_BoundedRetries ==
    \A t \in Callers :
        /\ attempts[t] <= 1 + MaxRetries
        /\ (/\ Returned(t)
            /\ response[t].kind = "response"
            /\ response[t].status \in StatusForcelist) =>
               /\ attempts[t] = 1 + MaxRetries
               /\ retval[t] \notin {"data", "none"}

\* three replies with a retryable status, the last one 503
C25_Witness ==
    /\ Returned(1)
    /\ attempts[1] = 1 + MaxRetries
    /\ response[1].status = 503
    /\ retval[1] = "error_unexpected"

\* C26: a response whose status is not in {429, 500, 502, 503, 504} ends
\* the call in the attempt that received it: make_request returns, with an
\* error value when the status is an error status or the body of a 2xx
\* response is malformed.
C26_OnlyListedRetried ==
    [][\A t \in Callers :
          (/\ attempts'[t] = attempts[t] + 1
           /\ response'[t].kind = "response"
           /\ response'[t].status \notin StatusForcelist) =>
              /\ outer'[t] = "idle"
              /\ (\/ response'[t].status >= 400
                  \/ ~JsonParses(response'[t].body)) =>
                     retval'[t] \notin {"data", "none"}]_vars

AllBlank(b) == \A i \in 1..Len(b) : b[i] = " "

FirstNonBlank(b) ==
    b[CHOOSE i \in 1..Len(b) :
          b[i] # " " /\ \A j \in 1..(i - 1) : b[j] = " "]

\* C27: for a response with status 200 make_request returns the empty-body
\* error when the body is empty or blank, else the not-JSON error when its
\* first non-blank character is neither { nor [, else the JSON-decode
\* error when it does not parse, and the payload only otherwise; the three
\* errors are different values.
C27_ValidationOrder ==
    \A t \in Callers :
        (Returned(t) /\ response[t].status = 200) =>
            LET b == response[t].body
            IN  retval[t] =
                    IF AllBlank(b) THEN "error_empty"
                    ELSE IF FirstNonBlank(b) \notin {"{", "["}
                    THEN "error_not_json"
                    ELSE IF ~JsonParses(b) THEN "error_json_decode"
                    ELSE "data"

\* a body that starts, after a blank, like JSON and does not parse
C27_Witness ==
    /\ Returned(1)
    /\ response[1].status = 200
    /\ response[1].body = <<" ", "{", "x">>
    /\ retval[1] = "error_json_decode"

\* ------------------------------------------------- request identifiers
\* C28: log_attempt_start returns a request id no other call of the
\* process returned, whatever the threads and the clock times of the two
\* calls, and it leaves consecutive_failures, total_attempts,
\* total_failures, failure_window and downtime_start as they were.
\* Every REQUEST_START event carries the returned id, so the ids are all
\* different when there are as many of them as there are events.
C28_UniqueRequestId ==
    /\ [](Cardinality(events.ids) = events.start)
    /\ [][events'.start # events.start =>
            UNCHANGED <<consecutive_failures, total_attempts,
                        total_failures, failure_window,
                        downtime_start>>]_vars

\* ------------------------------------------------- graceful fallback
\* C29: make_request_with_circuit_breaker returns the graceful fallback
\* exactly when the breaker rejected the call without invoking
\* make_request; an exception raised by make_request itself is raised
\* again to the caller. A call is rejected at the gate of the breaker,
\* before make_request is entered, and sends no request.
C29_FallbackIffRejected ==
    /\ [](\A t \in Callers :
            (outer[t] = "idle" /\ hret[t] # "none") =>
                /\ hret[t] = "fallback" <=> result[t] = "rejected"
                /\ result[t] = "raised" => hret[t] = "raised")
    /\ [][\A t \in Callers :
            (result[t] # "rejected" /\ result'[t] = "rejected") =>
                pc[t] = "check" /\ UNCHANGED <<sent, raised_at>>]_vars

\* one call was rejected and answered by the fallback after an earlier
\* call had failed inside make_request and was raised to the caller
C29_Witness ==
    /\ outer[1] = "idle"
    /\ hret[1] = "fallback"
    /\ result[1] = "rejected"
    /\ calls["raised"] > 0

\* ------------------------------------------------ attempts of the executor
\* the attempts executor_node has started and not yet handed to
\* log_attempt_success or log_attempt_failure
Pending == Cardinality({t \in Callers : outer[t] = "query"})

\* C30: in executor_node every attempt started with log_attempt_start is
\* finalized exactly once, by log_attempt_success or by
\* log_attempt_failure, never by both and never by neither: the
\* finalizations are as many as the attempts started, less those whose
\* query is still running, a step finalizes at most one attempt, the
\* attempt is recorded as a success exactly when the query returned, and
\* executor_node returns only with its attempt finalized.
C30_FinalizedExactlyOnce ==
    /\ [](events.start = Len(history) + Pending)
    /\ [][/\ Len(history') <= Len(history) + 1
          /\ \A t \in Callers :
                 (outer[t] = "query" /\ outer'[t] # "query") =>
                     /\ history' = Append(history, result[t] = "returned")
                     /\ mpc'[t] \in {"s_lock", "f_lock"}
          /\ \A t \in Callers :
                 (outer[t] = "record" /\ outer'[t] = "idle") =>
                     mpc[t] = "idle" /\ UNCHANGED history]_vars

\* three attempts, all finalized: a failed one, a successful one and one
\* more failure
C30_Witness ==
    /\ \A t \in Callers : outer[t] = "idle"
    /\ events.start = 3
    /\ history = <<FALSE, TRUE, FALSE>>

\* ------------------------------------------- failure kinds of the executor
\* C31: the failure kind executor_node hands to log_attempt_failure for a
\* failed call is the kind classify_error returns for the error message
\* of that call; a message containing "timed out" is recorded as TIMEOUT.
C31_RecordedKindClassified ==
    \A t \in Callers :
        (outer[t] = "record" /\ kind # "none") =>
            kind = classify_error(error_message)

\* ------------------------------------------ breaker state between calls
\* C32: for a breaker used by one caller with failure_threshold >= 1,
\* between calls the state is CLOSED exactly when failure_count is below
\* failure_threshold and OPEN otherwise (HALF_OPEN occurs only during a
\* call), and failure_count never decreases except to 0 on the reset of a
\* successful call.
C32_StateTracksCount ==
    /\ []((\A t \in Callers : pc[t] = "idle") =>
            /\ state \in {"CLOSED", "OPEN"}
            /\ state = "CLOSED" <=> failure_count < failure_threshold)
    /\ [][failure_count' < failure_count =>
            /\ failure_count' = 0
            /\ \E t \in Callers :
                   pc[t] = "reset_count" /\ pc'[t] = "reset_time"]_vars

\* between calls, OPEN again after a failed trial call: the count has
\* passed the threshold
C32_Witness ==
    /\ \A t \in Callers : pc[t] = "idle"
    /\ state = "OPEN"
    /\ failure_count = failure_threshold + 1
    /\ calls["returned"] > 0

\* --------------------------------------------------- OPEN is not permanent
\* C33: an OPEN breaker does not stay OPEN once the wrapped operation
\* succeeds, calls keep being made and time keeps advancing. On finite
\* runs: the breaker rejects a call only while less than timeout seconds
\* have passed since the last recorded failure, so that every later call
\* reaches the function; and after a call whose function
\* returned the breaker is CLOSED, so that it stays CLOSED while calls keep
\* succeeding.
C33_OpenNotPermanent ==
    /\ [][\A t \in Callers :
            (pc[t] = "check" /\ result'[t] = "rejected") =>
                now - last_failure_time < timeout]_vars
    /\ [](\A t \in Callers :
            (pc[t] = "idle" /\ result[t] = "returned") => state = "CLOSED")

\* ------------------------------------------ rate gate before the breaker
\* C34: make_request_with_circuit_breaker applies the rate limiting of
\* the key (url, operation) before it consults the breaker, on every
\* call: the breaker is entered by the step that stamps
\* _last_request_time[key], after the gate of that key was passed (no
\* earlier timestamp, or one at least rate_limit_delay old); a call the
\* breaker rejects has therefore stamped its key, and make_request runs
\* only inside a call that has.
C34_RateGateFirst ==
    /\ [][\A t \in Callers :
            (pc[t] = "idle" /\ pc'[t] = "check") =>
                /\ outer[t] = "rl_stamp"
                /\ \/ last_request_time[opkey[t]] = None
                   \/ now - last_request_time[opkey[t]] >= RateLimitDelay
                /\ last_request_time'[opkey[t]] = now]_vars
    /\ [](\A t \in Callers :
            /\ pc[t] # "idle" =>
                   (outer[t] = "breaker" /\ last_request_time[opkey[t]] # None)
            /\ (outer[t] = "idle" /\ hret[t] = "fallback") =>
                   /\ result[t] = "rejected"
                   /\ last_request_time[opkey[t]] # None)

\* a rejected call answered by the fallback, whose key was stamped after
\* the clock had advanced
C34_Witness ==
    /\ outer[1] = "idle"
    /\ hret[1] = "fallback"
    /\ last_request_time[opkey[1]] >= 1
    /\ last_request_time[opkey[1]] = now

\* ------------------------------------------------ order of the counters
\* 0 <= consecutive_failures <= total_failures <= total_attempts, and the
\* window holds at least min(consecutive_failures, len(window)) failures
CountersOrdered ==
    /\ 0 <= consecutive_failures
    /\ consecutive_failures <= total_failures
    /\ total_failures <= total_attempts
    /\ FailuresIn(failure_window) >=
           Min(consecutive_failures, Len(failure_window))

\* total_attempts and total_failures never decrease
CountersMonotonic ==
    [][/\ total_attempts' >= total_attempts
       /\ total_failures' >= total_failures]_vars

\* C35: in every reachable state of a ServiceMonitor the counters are
\* ordered, 0 <= consecutive_failures <= total_failures <= total_attempts,
\* total_attempts and total_failures never decrease, and failure_window
\* holds at least min(consecutive_failures, len(failure_window)) False
\* entries.
C35_CountersOrdered == []CountersOrdered /\ CountersMonotonic

\* C35, amended: the same in every state in which no thread is inside a
\* `with self._lock` block of the monitor.
C35_CountersOrderedUnlocked ==
    [](lock = 0 => CountersOrdered) /\ CountersMonotonic

\* eleven failures in a row: the streak is longer than the window
C35_Witness ==
    /\ lock = 0
    /\ \A t \in Callers : mpc[t] = "idle"
    /\ consecutive_failures = WindowSize + 1
    /\ Len(failure_window) = WindowSize
    /\ total_attempts = WindowSize + 1

\* ------------------------------------------------ transparency of call
\* the outcome CircuitBreaker.call ends with when it leaves from position p
OutcomeFrom(p) ==
    CASE p = "check" -> "rejected"
      [] p \in {"ok", "reset_time"} -> "returned"
      [] OTHER -> "raised"

\* C36: a call admitted by CircuitBreaker.call invokes the wrapped
\* function exactly once and is transparent: the function is entered only
\* from the gate of the call and left only into the return path or the
\* exception path, the call returns where the function returned and raises
\* where it raised; for the HTTPReader breaker every returned call has sent
\* exactly one request and hands make_request's value to the caller, a
\* raised one arrives as an exception and a rejected one as the fallback,
\* three different observations.
C36_AdmittedCallTransparent ==
    /\ [][\A t \in Callers :
            /\ (pc[t] # "check" /\ pc'[t] = "check") => pc[t] = "idle"
            /\ (pc[t] # "func" /\ pc'[t] = "func") =>
                   pc[t] \in {"check", "half"}
            /\ (pc[t] = "func" /\ pc'[t] # "func") =>
                   pc'[t] \in {"ok", "exc"}
            /\ (pc[t] \in {"ok", "reset_state", "reset_count"}
                    /\ pc'[t] # pc[t]) =>
                   pc'[t] \in {"idle", "reset_state", "reset_count",
                               "reset_time"}
            /\ (pc[t] \in {"exc", "store_count", "set_time"}
                    /\ pc'[t] # pc[t]) =>
                   pc'[t] \in {"store_count", "set_time", "trip_check"}
            /\ (pc[t] # "idle" /\ pc'[t] = "idle") =>
                   result'[t] = OutcomeFrom(pc[t])]_vars
    /\ []((\A t \in Callers : outer[t] = "idle") =>
            sent.ok + sent.failed = calls.returned)
    /\ [](\A t \in Callers :
            (outer[t] = "idle" /\ hret[t] # "none") =>
                /\ result[t] = "returned" =>
                       (hret[t] = retval[t]
                            /\ hret[t] \notin {"raised", "fallback"})
                /\ result[t] = "raised" => hret[t] = "raised"
                /\ result[t] = "rejected" => hret[t] = "fallback")

\* a trial call admitted in HALF_OPEN whose request was answered: its
\* value reached the caller, after earlier calls had raised and been
\* rejected
C36_Witness ==
    /\ outer[1] = "idle"
    /\ trial[1]
    /\ result[1] = "returned"
    /\ hret[1] = "error_timeout"
    /\ calls.raised = ServiceThreshold

====
